---------------------------- MODULE Spec2Model ----------------------------
(***************************************************************************)
(* Model of ofxtools/models.py: the Aggregate base class (schema           *)
(* composition, tree flattening, the pre-/post-flatten hook protocol and   *)
(* the tag-to-class dispatch of from_etree) together with the schema       *)
(* classes declared in that file.                                          *)
(*                                                                         *)
(* A markup node is a record [tag, text, kids]; text is None when the      *)
(* element carries no text.  A Python dict is a function whose DOMAIN is   *)
(* the set of keys.  One decode call is a stack of from_etree frames; each *)
(* action is one statement of from_etree (or of _postflatten) executed by  *)
(* the frame on top of the stack.                                          *)
(***************************************************************************)
EXTENDS Integers, Sequences, FiniteSets, TLC

VARIABLES input, stack, outcome, emro, ei, ed

vars == <<input, stack, outcome, emro, ei, ed>>

-----------------------------------------------------------------------------
(* Bounds of the explored inputs *)

\* most children hung under the root of a free-form input tree
MaxKids == 2
\* deepest nesting of a leaf below the root of a free-form input tree
MaxDepth == 2
\* most repetitions of one sub-aggregate (MFASSETCLASS, SECID) under a node
MaxRepeat == 3
\* longest ancestor linearization handed to the elements fold
MaxMro == 3

-----------------------------------------------------------------------------
(* Python values *)

\* the None object, as the text of an element without text
None == "<None>"

\* dict.update(other): keys of other replace those of d
Update(d, other) ==
  [k \in (DOMAIN d) \cup (DOMAIN other) |->
      IF k \in DOMAIN other THEN other[k] ELSE d[k]]

\* the empty dict
EmptyDict == <<>>

\* (text or '').strip() over the texts of the explored inputs
Strip(text) ==
  CASE text = None -> ""
    [] text = " " -> ""
    [] text = " USD " -> "USD"
    [] OTHER -> text

LowerTable ==
  "ACCESSKEY" :> "accesskey" @@ "ACCRDINT" :> "accrdint" @@ "ACCTFROM" :> "acctfrom" @@
  "ACCTID" :> "acctid" @@ "ACCTKEY" :> "acctkey" @@ "ACCTTYPE" :> "accttype" @@
  "ACCTTYPES" :> "accttypes" @@ "ADDR1" :> "addr1" @@ "ADDR2" :> "addr2" @@
  "ADDR3" :> "addr3" @@ "ASSETCLASS" :> "assetclass" @@ "AVAILBAL" :> "availbal" @@
  "AVAILCASH" :> "availcash" @@ "AVGCOSTBASIS" :> "avgcostbasis" @@ "Aggregate" :> "aggregate" @@
  "BAL" :> "bal" @@ "BALAMT" :> "balamt" @@ "BALTYPE" :> "baltype" @@
  "BANKACCTFROM" :> "bankacctfrom" @@ "BANKACCTTO" :> "bankacctto" @@ "BANKID" :> "bankid" @@
  "BRANCHID" :> "branchid" @@ "BROKERID" :> "brokerid" @@ "BUYDEBT" :> "buydebt" @@
  "BUYMF" :> "buymf" @@ "BUYOPT" :> "buyopt" @@ "BUYOTHER" :> "buyother" @@
  "BUYPOWER" :> "buypower" @@ "BUYSTOCK" :> "buystock" @@ "BUYTYPE" :> "buytype" @@
  "CALLPRICE" :> "callprice" @@ "CALLTYPE" :> "calltype" @@ "CCACCTFROM" :> "ccacctfrom" @@
  "CCACCTTO" :> "ccacctto" @@ "CHECKNUM" :> "checknum" @@ "CITY" :> "city" @@
  "CLOSUREOPT" :> "closureopt" @@ "CODE" :> "code" @@ "COMMISSION" :> "commission" @@
  "CORRECTACTION" :> "correctaction" @@ "CORRECTFITID" :> "correctfitid" @@ "COUNTRY" :> "country" @@
  "COUPONFREQ" :> "couponfreq" @@ "COUPONRT" :> "couponrt" @@ "CURRATE" :> "currate" @@
  "CURRENCY" :> "currency" @@ "CURSYM" :> "cursym" @@ "CURTYPE" :> "curtype" @@
  "DEBTCLASS" :> "debtclass" @@ "DEBTINFO" :> "debtinfo" @@ "DEBTTYPE" :> "debttype" @@
  "DENOMINATOR" :> "denominator" @@ "DESC" :> "desc" @@ "DTACCTUP" :> "dtacctup" @@
  "DTASOF" :> "dtasof" @@ "DTAVAIL" :> "dtavail" @@ "DTCALL" :> "dtcall" @@
  "DTCOUPON" :> "dtcoupon" @@ "DTEXPIRE" :> "dtexpire" @@ "DTMAT" :> "dtmat" @@
  "DTPAYROLL" :> "dtpayroll" @@ "DTPOSTED" :> "dtposted" @@ "DTPRICEASOF" :> "dtpriceasof" @@
  "DTPROFUP" :> "dtprofup" @@ "DTPURCHASE" :> "dtpurchase" @@ "DTSERVER" :> "dtserver" @@
  "DTSETTLE" :> "dtsettle" @@ "DTTRADE" :> "dttrade" @@ "DTUSER" :> "dtuser" @@
  "DTYIELDASOF" :> "dtyieldasof" @@ "ET" :> "et" @@ "FEES" :> "fees" @@
  "FI" :> "fi" @@ "FIASSETCLASS" :> "fiassetclass" @@ "FID" :> "fid" @@
  "FIID" :> "fiid" @@ "FIMFASSETCLASS" :> "fimfassetclass" @@ "FIPORTION" :> "fiportion" @@
  "FITID" :> "fitid" @@ "FOO" :> "foo" @@ "FRACCASH" :> "fraccash" @@
  "GAIN" :> "gain" @@ "HELDINACCT" :> "heldinacct" @@ "INCOME" :> "income" @@
  "INCOMETYPE" :> "incometype" @@ "INTU.AGG" :> "intu.agg" @@ "INTU.BID" :> "intu.bid" @@
  "INV401KSOURCE" :> "inv401ksource" @@ "INVACCTFROM" :> "invacctfrom" @@ "INVBAL" :> "invbal" @@
  "INVBANKTRAN" :> "invbanktran" @@ "INVBUY" :> "invbuy" @@ "INVEXPENSE" :> "invexpense" @@
  "INVPOS" :> "invpos" @@ "INVSELL" :> "invsell" @@ "INVTRAN" :> "invtran" @@
  "JRNLFUND" :> "jrnlfund" @@ "JRNLSEC" :> "jrnlsec" @@ "LANGUAGE" :> "language" @@
  "LEDGERBAL" :> "ledgerbal" @@ "LOAD" :> "load" @@ "LOANID" :> "loanid" @@
  "LOANINTEREST" :> "loaninterest" @@ "LOANPRINCIPAL" :> "loanprincipal" @@ "MARGINBALANCE" :> "marginbalance" @@
  "MARGININTEREST" :> "margininterest" @@ "MARKDOWN" :> "markdown" @@ "MARKUP" :> "markup" @@
  "MEMO" :> "memo" @@ "MESSAGE" :> "message" @@ "MFASSETCLASS" :> "mfassetclass" @@
  "MFINFO" :> "mfinfo" @@ "MFTYPE" :> "mftype" @@ "MKTVAL" :> "mktval" @@
  "NAME" :> "name" @@ "NEWUNITS" :> "newunits" @@ "NUMERATOR" :> "numerator" @@
  "OLDUNITS" :> "oldunits" @@ "OPTACTION" :> "optaction" @@ "OPTBUYTYPE" :> "optbuytype" @@
  "OPTINFO" :> "optinfo" @@ "OPTSELLTYPE" :> "optselltype" @@ "OPTTYPE" :> "opttype" @@
  "ORG" :> "org" @@ "ORIGCURRENCY" :> "origcurrency" @@ "OTHERINFO" :> "otherinfo" @@
  "PARVALUE" :> "parvalue" @@ "PAYEE" :> "payee" @@ "PAYEEID" :> "payeeid" @@
  "PENALTY" :> "penalty" @@ "PERCENT" :> "percent" @@ "PHONE" :> "phone" @@
  "PORTION" :> "portion" @@ "POSDEBT" :> "posdebt" @@ "POSMF" :> "posmf" @@
  "POSOPT" :> "posopt" @@ "POSOTHER" :> "posother" @@ "POSSTOCK" :> "posstock" @@
  "POSTALCODE" :> "postalcode" @@ "POSTYPE" :> "postype" @@ "PRIORYEARCONTRIB" :> "prioryearcontrib" @@
  "RATING" :> "rating" @@ "REFNUM" :> "refnum" @@ "REINVCG" :> "reinvcg" @@
  "REINVDIV" :> "reinvdiv" @@ "REINVEST" :> "reinvest" @@ "RELFITID" :> "relfitid" @@
  "RELTYPE" :> "reltype" @@ "RETOFCAP" :> "retofcap" @@ "REVERSALFITID" :> "reversalfitid" @@
  "SECID" :> "secid" @@ "SECINFO" :> "secinfo" @@ "SECNAME" :> "secname" @@
  "SECURED" :> "secured" @@ "SELLDEBT" :> "selldebt" @@ "SELLMF" :> "sellmf" @@
  "SELLOPT" :> "sellopt" @@ "SELLOTHER" :> "sellother" @@ "SELLREASON" :> "sellreason" @@
  "SELLSTOCK" :> "sellstock" @@ "SELLTYPE" :> "selltype" @@ "SESSCOOKIE" :> "sesscookie" @@
  "SEVERITY" :> "severity" @@ "SHORTBALANCE" :> "shortbalance" @@ "SHPERCTRCT" :> "shperctrct" @@
  "SIC" :> "sic" @@ "SONRS" :> "sonrs" @@ "SPLIT" :> "split" @@
  "SRVRTID" :> "srvrtid" @@ "STATE" :> "state" @@ "STATEWITHHOLDING" :> "statewithholding" @@
  "STATUS" :> "status" @@ "STMTTRN" :> "stmttrn" @@ "STOCKINFO" :> "stockinfo" @@
  "STOCKTYPE" :> "stocktype" @@ "STRIKEPRICE" :> "strikeprice" @@ "SUBACCTFROM" :> "subacctfrom" @@
  "SUBACCTFUND" :> "subacctfund" @@ "SUBACCTSEC" :> "subacctsec" @@ "SUBACCTTO" :> "subacctto" @@
  "TAXES" :> "taxes" @@ "TAXEXEMPT" :> "taxexempt" @@ "TFERACTION" :> "tferaction" @@
  "TICKER" :> "ticker" @@ "TOTAL" :> "total" @@ "TRAN" :> "tran" @@
  "TRANSFER" :> "transfer" @@ "TRNAMT" :> "trnamt" @@ "TRNTYPE" :> "trntype" @@
  "TSKEYEXPIRE" :> "tskeyexpire" @@ "TYPEDESC" :> "typedesc" @@ "UNIQUEID" :> "uniqueid" @@
  "UNIQUEIDTYPE" :> "uniqueidtype" @@ "UNITPRICE" :> "unitprice" @@ "UNITS" :> "units" @@
  "UNITSSTREET" :> "unitsstreet" @@ "UNITSUSER" :> "unitsuser" @@ "USERKEY" :> "userkey" @@
  "V" :> "v" @@ "VALUE" :> "value" @@ "W" :> "w" @@
  "WITHHOLDING" :> "withholding" @@ "YIELD" :> "yield" @@ "YIELDTOCALL" :> "yieldtocall" @@
  "YIELDTOMAT" :> "yieldtomat" @@ "YLD" :> "yld" @@ "balamt" :> "balamt"

DottedTags == {"INTU.AGG", "INTU.BID"}

\* str.lower() over the tags of the explored inputs
Lower(tag) == LowerTable[tag]

\* '.' in tag
HasDot(tag) == tag \in DottedTags

-----------------------------------------------------------------------------
(* Field descriptors (ofxtools.Types) and the closed code sets (ofxtools.lib) *)

LANG_CODES == {"ENG", "FRA"}

CURRENCY_CODES == {"USD", "EUR"}

COUNTRY_CODES == {"USA", "CAN"}

ElementKinds == {"Bool", "String", "OneOf", "Integer", "Decimal", "DateTime", "NagString"}

\* a class attribute: the class whose body declares it, the type of the
\* object bound to it and, for an Element, its constructor arguments
D(owner, kind, size, choices, required) ==
  [owner |-> owner, kind |-> kind, size |-> size, choices |-> choices,
   required |-> required]

\* isinstance(v, Element)
IsElement(v) == v.kind \in ElementKinds

NumberTexts == {"1234.56", "5.00", "1.0850", "100", "+5"}

DateTimeTexts == {"20230101120000"}

\* the typed value a number text converts to, written canonically
NumberOf(text) == IF text = "+5" THEN "5" ELSE text

\* Element.convert: None is accepted by an optional field only; any other
\* text must satisfy the constraint of the descriptor's kind
Convert(desc, value) ==
  IF value = None
  THEN [ok |-> ~desc.required, val |-> None]
  ELSE CASE desc.kind = "OneOf" ->
              [ok |-> value \in desc.choices, val |-> value]
         [] desc.kind \in {"Decimal", "Integer"} ->
              [ok |-> value \in NumberTexts, val |-> NumberOf(value)]
         [] desc.kind = "DateTime" ->
              [ok |-> value \in DateTimeTexts, val |-> value]
         [] desc.kind = "Bool" ->
              [ok |-> value \in {"Y", "N"}, val |-> value]
         [] desc.kind = "String" ->
              [ok |-> desc.size = 0 \/ Len(value) <= desc.size, val |-> value]
         [] OTHER ->
              [ok |-> TRUE, val |-> value]

-----------------------------------------------------------------------------
(* The classes of the module *)

Object == [name |-> "object", bases |-> <<>>, hook |-> FALSE, dict |-> <<>>]

Aggregate ==
  [name |-> "Aggregate", bases |-> <<"object">>, hook |-> TRUE, dict |-> <<>>]

INV401KSOURCES == {"PRETAX", "AFTERTAX", "MATCH", "PROFITSHARING", "ROLLOVER", "OTHERVEST", "OTHERNONVEST"}

ACCTTYPES == {"CHECKING", "SAVINGS", "MONEYMRKT", "CREDITLINE"}

INVSUBACCTS == {"CASH", "MARGIN", "SHORT", "OTHER"}

BUYTYPES == {"BUY", "BUYTOCOVER"}

SELLTYPES == {"SELL", "SELLSHORT"}

INCOMETYPES == {"CGLONG", "CGSHORT", "DIV", "INTEREST", "MISC"}

ASSETCLASSES == {"DOMESTICBOND", "INTLBOND", "LARGESTOCK", "SMALLSTOCK", "INTLSTOCK", "MONEYMRKT", "OTHER"}

FI ==
  [ name |-> "FI",
    bases |-> <<"Aggregate">>,
    hook |-> FALSE,
    dict |->
       [ org |-> D("FI", "String", 32, {}, FALSE),
         fid |-> D("FI", "String", 32, {}, FALSE) ] ]

STATUS ==
  [ name |-> "STATUS",
    bases |-> <<"Aggregate">>,
    hook |-> FALSE,
    dict |->
       [ code |-> D("STATUS", "Integer", 6, {}, TRUE),
         severity |-> D("STATUS", "OneOf", 0, {"INFO", "WARN", "ERROR"}, TRUE),
         message |-> D("STATUS", "String", 255, {}, FALSE) ] ]

SONRS ==
  [ name |-> "SONRS",
    bases |-> <<"FI", "STATUS">>,
    hook |-> FALSE,
    dict |->
       [ dtserver |-> D("SONRS", "DateTime", 0, {}, TRUE),
         userkey |-> D("SONRS", "String", 64, {}, FALSE),
         tskeyexpire |-> D("SONRS", "DateTime", 0, {}, FALSE),
         language |-> D("SONRS", "OneOf", 0, LANG_CODES, FALSE),
         dtprofup |-> D("SONRS", "DateTime", 0, {}, FALSE),
         dtacctup |-> D("SONRS", "DateTime", 0, {}, FALSE),
         sesscookie |-> D("SONRS", "String", 1000, {}, FALSE),
         accesskey |-> D("SONRS", "String", 1000, {}, FALSE) ] ]

CURRENCY ==
  [ name |-> "CURRENCY",
    bases |-> <<"Aggregate">>,
    hook |-> FALSE,
    dict |->
       [ cursym |-> D("CURRENCY", "OneOf", 0, CURRENCY_CODES, FALSE),
         currate |-> D("CURRENCY", "Decimal", 8, {}, FALSE) ] ]

ORIGCURRENCY ==
  [ name |-> "ORIGCURRENCY",
    bases |-> <<"CURRENCY">>,
    hook |-> TRUE,
    dict |->
       [ curtype |-> D("ORIGCURRENCY", "OneOf", 0, {"CURRENCY", "ORIGCURRENCY"}, FALSE) ] ]

ACCTFROM ==
  [ name |-> "ACCTFROM",
    bases |-> <<"Aggregate">>,
    hook |-> FALSE,
    dict |->
       [ acctid |-> D("ACCTFROM", "String", 22, {}, TRUE) ] ]

BANKACCTFROM ==
  [ name |-> "BANKACCTFROM",
    bases |-> <<"ACCTFROM">>,
    hook |-> FALSE,
    dict |->
       [ bankid |-> D("BANKACCTFROM", "String", 9, {}, TRUE),
         branchid |-> D("BANKACCTFROM", "String", 22, {}, FALSE),
         accttype |-> D("BANKACCTFROM", "OneOf", 0, ACCTTYPES, TRUE),
         acctkey |-> D("BANKACCTFROM", "String", 22, {}, FALSE) ] ]

BANKACCTTO ==
  [ name |-> "BANKACCTTO",
    bases |-> <<"BANKACCTFROM">>,
    hook |-> FALSE,
    dict |->
       <<>> ]

CCACCTFROM ==
  [ name |-> "CCACCTFROM",
    bases |-> <<"ACCTFROM">>,
    hook |-> FALSE,
    dict |->
       [ acctkey |-> D("CCACCTFROM", "String", 22, {}, FALSE) ] ]

CCACCTTO ==
  [ name |-> "CCACCTTO",
    bases |-> <<"CCACCTFROM">>,
    hook |-> FALSE,
    dict |->
       <<>> ]

INVACCTFROM ==
  [ name |-> "INVACCTFROM",
    bases |-> <<"ACCTFROM">>,
    hook |-> FALSE,
    dict |->
       [ brokerid |-> D("INVACCTFROM", "String", 22, {}, TRUE) ] ]

LEDGERBAL ==
  [ name |-> "LEDGERBAL",
    bases |-> <<"Aggregate">>,
    hook |-> FALSE,
    dict |->
       [ balamt |-> D("LEDGERBAL", "Decimal", 0, {}, TRUE),
         dtasof |-> D("LEDGERBAL", "DateTime", 0, {}, TRUE) ] ]

AVAILBAL ==
  [ name |-> "AVAILBAL",
    bases |-> <<"Aggregate">>,
    hook |-> FALSE,
    dict |->
       [ balamt |-> D("AVAILBAL", "Decimal", 0, {}, TRUE),
         dtasof |-> D("AVAILBAL", "DateTime", 0, {}, TRUE) ] ]

INVBAL ==
  [ name |-> "INVBAL",
    bases |-> <<"Aggregate">>,
    hook |-> FALSE,
    dict |->
       [ availcash |-> D("INVBAL", "Decimal", 0, {}, TRUE),
         marginbalance |-> D("INVBAL", "Decimal", 0, {}, TRUE),
         shortbalance |-> D("INVBAL", "Decimal", 0, {}, TRUE),
         buypower |-> D("INVBAL", "Decimal", 0, {}, FALSE) ] ]

BAL ==
  [ name |-> "BAL",
    bases |-> <<"CURRENCY">>,
    hook |-> FALSE,
    dict |->
       [ name |-> D("BAL", "String", 32, {}, TRUE),
         desc |-> D("BAL", "String", 80, {}, TRUE),
         baltype |-> D("BAL", "OneOf", 0, {"DOLLAR", "PERCENT", "NUMBER"}, TRUE),
         value |-> D("BAL", "Decimal", 0, {}, TRUE),
         dtasof |-> D("BAL", "DateTime", 0, {}, FALSE) ] ]

SECID ==
  [ name |-> "SECID",
    bases |-> <<"Aggregate">>,
    hook |-> FALSE,
    dict |->
       [ uniqueid |-> D("SECID", "String", 32, {}, TRUE),
         uniqueidtype |-> D("SECID", "String", 10, {}, TRUE) ] ]

SECINFO ==
  [ name |-> "SECINFO",
    bases |-> <<"CURRENCY", "SECID">>,
    hook |-> FALSE,
    dict |->
       [ secname |-> D("SECINFO", "NagString", 120, {}, TRUE),
         ticker |-> D("SECINFO", "NagString", 32, {}, FALSE),
         fiid |-> D("SECINFO", "String", 32, {}, FALSE),
         rating |-> D("SECINFO", "String", 10, {}, FALSE),
         unitprice |-> D("SECINFO", "Decimal", 0, {}, FALSE),
         dtasof |-> D("SECINFO", "DateTime", 0, {}, FALSE),
         memo |-> D("SECINFO", "String", 255, {}, FALSE) ] ]

DEBTINFO ==
  [ name |-> "DEBTINFO",
    bases |-> <<"SECINFO">>,
    hook |-> FALSE,
    dict |->
       [ parvalue |-> D("DEBTINFO", "Decimal", 0, {}, TRUE),
         debttype |-> D("DEBTINFO", "OneOf", 0, {"COUPON", "ZERO"}, TRUE),
         debtclass |-> D("DEBTINFO", "OneOf", 0, {"TREASURY", "MUNICIPAL", "CORPORATE", "OTHER"}, FALSE),
         couponrt |-> D("DEBTINFO", "Decimal", 4, {}, FALSE),
         dtcoupon |-> D("DEBTINFO", "DateTime", 0, {}, FALSE),
         couponfreq |-> D("DEBTINFO", "OneOf", 0, {"MONTHLY", "QUARTERLY", "SEMIANNUAL", "ANNUAL", "OTHER"}, FALSE),
         callprice |-> D("DEBTINFO", "Decimal", 4, {}, FALSE),
         yieldtocall |-> D("DEBTINFO", "Decimal", 4, {}, FALSE),
         dtcall |-> D("DEBTINFO", "DateTime", 0, {}, FALSE),
         calltype |-> D("DEBTINFO", "OneOf", 0, {"CALL", "PUT", "PREFUND", "MATURITY"}, FALSE),
         yieldtomat |-> D("DEBTINFO", "Decimal", 4, {}, FALSE),
         dtmat |-> D("DEBTINFO", "DateTime", 0, {}, FALSE),
         assetclass |-> D("DEBTINFO", "OneOf", 0, ASSETCLASSES, FALSE),
         fiassetclass |-> D("DEBTINFO", "String", 32, {}, FALSE) ] ]

MFINFO ==
  [ name |-> "MFINFO",
    bases |-> <<"SECINFO">>,
    hook |-> TRUE,
    dict |->
       [ mftype |-> D("MFINFO", "OneOf", 0, {"OPENEND", "CLOSEEND", "OTHER"}, FALSE),
         yld |-> D("MFINFO", "Decimal", 4, {}, FALSE),
         dtyieldasof |-> D("MFINFO", "DateTime", 0, {}, FALSE),
         mfassetclass |-> D("MFINFO", "list", 0, {}, FALSE),
         fimfassetclass |-> D("MFINFO", "list", 0, {}, FALSE) ] ]

PORTION ==
  [ name |-> "PORTION",
    bases |-> <<"Aggregate">>,
    hook |-> FALSE,
    dict |->
       [ assetclass |-> D("PORTION", "OneOf", 0, ASSETCLASSES, TRUE),
         percent |-> D("PORTION", "Decimal", 0, {}, TRUE) ] ]

FIPORTION ==
  [ name |-> "FIPORTION",
    bases |-> <<"Aggregate">>,
    hook |-> FALSE,
    dict |->
       [ fiassetclass |-> D("FIPORTION", "String", 32, {}, TRUE),
         percent |-> D("FIPORTION", "Decimal", 0, {}, TRUE) ] ]

OPTINFO ==
  [ name |-> "OPTINFO",
    bases |-> <<"SECINFO">>,
    hook |-> TRUE,
    dict |->
       [ opttype |-> D("OPTINFO", "OneOf", 0, {"CALL", "PUT"}, TRUE),
         strikeprice |-> D("OPTINFO", "Decimal", 0, {}, TRUE),
         dtexpire |-> D("OPTINFO", "DateTime", 0, {}, TRUE),
         shperctrct |-> D("OPTINFO", "Integer", 0, {}, TRUE),
         assetclass |-> D("OPTINFO", "OneOf", 0, ASSETCLASSES, FALSE),
         fiassetclass |-> D("OPTINFO", "String", 32, {}, FALSE) ] ]

OTHERINFO ==
  [ name |-> "OTHERINFO",
    bases |-> <<"SECINFO">>,
    hook |-> FALSE,
    dict |->
       [ typedesc |-> D("OTHERINFO", "String", 32, {}, FALSE),
         assetclass |-> D("OTHERINFO", "OneOf", 0, ASSETCLASSES, FALSE),
         fiassetclass |-> D("OTHERINFO", "String", 32, {}, FALSE) ] ]

STOCKINFO ==
  [ name |-> "STOCKINFO",
    bases |-> <<"SECINFO">>,
    hook |-> FALSE,
    dict |->
       [ stocktype |-> D("STOCKINFO", "OneOf", 0, {"COMMON", "PREFERRED", "CONVERTIBLE", "OTHER"}, FALSE),
         yld |-> D("STOCKINFO", "Decimal", 4, {}, FALSE),
         dtyieldasof |-> D("STOCKINFO", "DateTime", 0, {}, FALSE),
         typedesc |-> D("STOCKINFO", "String", 32, {}, FALSE),
         assetclass |-> D("STOCKINFO", "OneOf", 0, ASSETCLASSES, FALSE),
         fiassetclass |-> D("STOCKINFO", "String", 32, {}, FALSE) ] ]

PAYEE ==
  [ name |-> "PAYEE",
    bases |-> <<"Aggregate">>,
    hook |-> FALSE,
    dict |->
       [ name |-> D("PAYEE", "NagString", 32, {}, TRUE),
         addr1 |-> D("PAYEE", "String", 32, {}, TRUE),
         addr2 |-> D("PAYEE", "String", 32, {}, FALSE),
         addr3 |-> D("PAYEE", "String", 32, {}, FALSE),
         city |-> D("PAYEE", "String", 32, {}, TRUE),
         state |-> D("PAYEE", "String", 5, {}, TRUE),
         postalcode |-> D("PAYEE", "String", 11, {}, TRUE),
         country |-> D("PAYEE", "OneOf", 0, COUNTRY_CODES, FALSE),
         phone |-> D("PAYEE", "String", 32, {}, TRUE) ] ]

TRAN ==
  [ name |-> "TRAN",
    bases |-> <<"Aggregate">>,
    hook |-> FALSE,
    dict |->
       [ fitid |-> D("TRAN", "String", 255, {}, TRUE),
         srvrtid |-> D("TRAN", "String", 10, {}, FALSE) ] ]

STMTTRN ==
  [ name |-> "STMTTRN",
    bases |-> <<"TRAN", "ORIGCURRENCY">>,
    hook |-> TRUE,
    dict |->
       [ trntype |-> D("STMTTRN", "OneOf", 0, {"CREDIT", "DEBIT", "INT", "DIV", "FEE", "SRVCHG", "DEP", "ATM", "POS", "XFER", "CHECK", "PAYMENT", "CASH", "DIRECTDEP", "DIRECTDEBIT", "REPEATPMT", "OTHER"}, TRUE),
         dtposted |-> D("STMTTRN", "DateTime", 0, {}, TRUE),
         dtuser |-> D("STMTTRN", "DateTime", 0, {}, FALSE),
         dtavail |-> D("STMTTRN", "DateTime", 0, {}, FALSE),
         trnamt |-> D("STMTTRN", "Decimal", 0, {}, TRUE),
         correctfitid |-> D("STMTTRN", "Decimal", 0, {}, FALSE),
         correctaction |-> D("STMTTRN", "OneOf", 0, {"REPLACE", "DELETE"}, FALSE),
         checknum |-> D("STMTTRN", "String", 12, {}, FALSE),
         refnum |-> D("STMTTRN", "String", 32, {}, FALSE),
         sic |-> D("STMTTRN", "Integer", 0, {}, FALSE),
         payeeid |-> D("STMTTRN", "String", 12, {}, FALSE),
         name |-> D("STMTTRN", "String", 32, {}, FALSE),
         memo |-> D("STMTTRN", "String", 255, {}, FALSE),
         inv401ksource |-> D("STMTTRN", "OneOf", 0, INV401KSOURCES, FALSE),
         payee |-> D("STMTTRN", "NoneType", 0, {}, FALSE),
         bankacctto |-> D("STMTTRN", "NoneType", 0, {}, FALSE),
         ccacctto |-> D("STMTTRN", "NoneType", 0, {}, FALSE) ] ]

INVBANKTRAN ==
  [ name |-> "INVBANKTRAN",
    bases |-> <<"STMTTRN">>,
    hook |-> FALSE,
    dict |->
       [ subacctfund |-> D("INVBANKTRAN", "OneOf", 0, INVSUBACCTS, TRUE) ] ]

INVTRAN ==
  [ name |-> "INVTRAN",
    bases |-> <<"TRAN">>,
    hook |-> FALSE,
    dict |->
       [ dttrade |-> D("INVTRAN", "DateTime", 0, {}, TRUE),
         dtsettle |-> D("INVTRAN", "DateTime", 0, {}, FALSE),
         reversalfitid |-> D("INVTRAN", "String", 255, {}, FALSE),
         memo |-> D("INVTRAN", "String", 255, {}, FALSE) ] ]

INVBUY ==
  [ name |-> "INVBUY",
    bases |-> <<"INVTRAN", "SECID", "ORIGCURRENCY">>,
    hook |-> FALSE,
    dict |->
       [ units |-> D("INVBUY", "Decimal", 0, {}, TRUE),
         unitprice |-> D("INVBUY", "Decimal", 4, {}, TRUE),
         markup |-> D("INVBUY", "Decimal", 0, {}, FALSE),
         commission |-> D("INVBUY", "Decimal", 0, {}, FALSE),
         taxes |-> D("INVBUY", "Decimal", 0, {}, FALSE),
         fees |-> D("INVBUY", "Decimal", 0, {}, FALSE),
         load |-> D("INVBUY", "Decimal", 0, {}, FALSE),
         total |-> D("INVBUY", "Decimal", 0, {}, TRUE),
         subacctsec |-> D("INVBUY", "OneOf", 0, INVSUBACCTS, TRUE),
         subacctfund |-> D("INVBUY", "OneOf", 0, INVSUBACCTS, TRUE),
         loanid |-> D("INVBUY", "String", 32, {}, FALSE),
         loanprincipal |-> D("INVBUY", "Decimal", 0, {}, FALSE),
         loaninterest |-> D("INVBUY", "Decimal", 0, {}, FALSE),
         inv401ksource |-> D("INVBUY", "OneOf", 0, INV401KSOURCES, FALSE),
         dtpayroll |-> D("INVBUY", "DateTime", 0, {}, FALSE),
         prioryearcontrib |-> D("INVBUY", "Bool", 0, {}, FALSE) ] ]

INVSELL ==
  [ name |-> "INVSELL",
    bases |-> <<"INVTRAN", "SECID", "ORIGCURRENCY">>,
    hook |-> FALSE,
    dict |->
       [ units |-> D("INVSELL", "Decimal", 0, {}, TRUE),
         unitprice |-> D("INVSELL", "Decimal", 4, {}, TRUE),
         markdown |-> D("INVSELL", "Decimal", 0, {}, FALSE),
         commission |-> D("INVSELL", "Decimal", 0, {}, FALSE),
         taxes |-> D("INVSELL", "Decimal", 0, {}, FALSE),
         fees |-> D("INVSELL", "Decimal", 0, {}, FALSE),
         load |-> D("INVSELL", "Decimal", 0, {}, FALSE),
         withholding |-> D("INVSELL", "Decimal", 0, {}, FALSE),
         taxexempt |-> D("INVSELL", "Bool", 0, {}, FALSE),
         total |-> D("INVSELL", "Decimal", 0, {}, TRUE),
         gain |-> D("INVSELL", "Decimal", 0, {}, FALSE),
         subacctsec |-> D("INVSELL", "OneOf", 0, INVSUBACCTS, TRUE),
         subacctfund |-> D("INVSELL", "OneOf", 0, INVSUBACCTS, TRUE),
         loanid |-> D("INVSELL", "String", 32, {}, FALSE),
         statewithholding |-> D("INVSELL", "Decimal", 0, {}, FALSE),
         penalty |-> D("INVSELL", "Decimal", 0, {}, FALSE),
         inv401ksource |-> D("INVSELL", "OneOf", 0, INV401KSOURCES, FALSE) ] ]

BUYDEBT ==
  [ name |-> "BUYDEBT",
    bases |-> <<"INVBUY">>,
    hook |-> FALSE,
    dict |->
       [ accrdint |-> D("BUYDEBT", "Decimal", 0, {}, FALSE) ] ]

BUYMF ==
  [ name |-> "BUYMF",
    bases |-> <<"INVBUY">>,
    hook |-> FALSE,
    dict |->
       [ buytype |-> D("BUYMF", "OneOf", 0, BUYTYPES, TRUE),
         relfitid |-> D("BUYMF", "String", 255, {}, FALSE) ] ]

BUYOPT ==
  [ name |-> "BUYOPT",
    bases |-> <<"INVBUY">>,
    hook |-> FALSE,
    dict |->
       [ optbuytype |-> D("BUYOPT", "OneOf", 0, {"BUYTOOPEN", "BUYTOCLOSE"}, TRUE),
         shperctrct |-> D("BUYOPT", "Integer", 0, {}, TRUE) ] ]

BUYOTHER ==
  [ name |-> "BUYOTHER",
    bases |-> <<"INVBUY">>,
    hook |-> FALSE,
    dict |->
       <<>> ]

BUYSTOCK ==
  [ name |-> "BUYSTOCK",
    bases |-> <<"INVBUY">>,
    hook |-> FALSE,
    dict |->
       [ buytype |-> D("BUYSTOCK", "OneOf", 0, BUYTYPES, TRUE) ] ]

CLOSUREOPT ==
  [ name |-> "CLOSUREOPT",
    bases |-> <<"INVTRAN", "SECID">>,
    hook |-> FALSE,
    dict |->
       [ optaction |-> D("CLOSUREOPT", "OneOf", 0, {"EXERCISE", "ASSIGN", "EXPIRE"}, FALSE),
         units |-> D("CLOSUREOPT", "Decimal", 0, {}, TRUE),
         shperctrct |-> D("CLOSUREOPT", "Integer", 0, {}, TRUE),
         subacctsec |-> D("CLOSUREOPT", "OneOf", 0, INVSUBACCTS, TRUE),
         relfitid |-> D("CLOSUREOPT", "String", 255, {}, FALSE),
         gain |-> D("CLOSUREOPT", "Decimal", 0, {}, FALSE) ] ]

INCOME ==
  [ name |-> "INCOME",
    bases |-> <<"INVTRAN", "SECID", "ORIGCURRENCY">>,
    hook |-> FALSE,
    dict |->
       [ incometype |-> D("INCOME", "OneOf", 0, INCOMETYPES, TRUE),
         total |-> D("INCOME", "Decimal", 0, {}, TRUE),
         subacctsec |-> D("INCOME", "OneOf", 0, INVSUBACCTS, TRUE),
         subacctfund |-> D("INCOME", "OneOf", 0, INVSUBACCTS, TRUE),
         taxexempt |-> D("INCOME", "Bool", 0, {}, FALSE),
         withholding |-> D("INCOME", "Decimal", 0, {}, FALSE),
         inv401ksource |-> D("INCOME", "OneOf", 0, INV401KSOURCES, FALSE) ] ]

INVEXPENSE ==
  [ name |-> "INVEXPENSE",
    bases |-> <<"INVTRAN", "SECID", "ORIGCURRENCY">>,
    hook |-> FALSE,
    dict |->
       [ total |-> D("INVEXPENSE", "Decimal", 0, {}, TRUE),
         subacctsec |-> D("INVEXPENSE", "OneOf", 0, INVSUBACCTS, TRUE),
         subacctfund |-> D("INVEXPENSE", "OneOf", 0, INVSUBACCTS, TRUE),
         inv401ksource |-> D("INVEXPENSE", "OneOf", 0, INV401KSOURCES, FALSE) ] ]

JRNLFUND ==
  [ name |-> "JRNLFUND",
    bases |-> <<"INVTRAN">>,
    hook |-> FALSE,
    dict |->
       [ subacctto |-> D("JRNLFUND", "OneOf", 0, INVSUBACCTS, TRUE),
         subacctfrom |-> D("JRNLFUND", "OneOf", 0, INVSUBACCTS, TRUE),
         total |-> D("JRNLFUND", "Decimal", 0, {}, TRUE) ] ]

JRNLSEC ==
  [ name |-> "JRNLSEC",
    bases |-> <<"INVTRAN", "SECID">>,
    hook |-> FALSE,
    dict |->
       [ subacctto |-> D("JRNLSEC", "OneOf", 0, INVSUBACCTS, TRUE),
         subacctfrom |-> D("JRNLSEC", "OneOf", 0, INVSUBACCTS, TRUE),
         units |-> D("JRNLSEC", "Decimal", 0, {}, TRUE) ] ]

MARGININTEREST ==
  [ name |-> "MARGININTEREST",
    bases |-> <<"INVTRAN", "ORIGCURRENCY">>,
    hook |-> FALSE,
    dict |->
       [ total |-> D("MARGININTEREST", "Decimal", 0, {}, TRUE),
         subacctfund |-> D("MARGININTEREST", "OneOf", 0, INVSUBACCTS, TRUE) ] ]

REINVEST ==
  [ name |-> "REINVEST",
    bases |-> <<"INVTRAN", "SECID", "ORIGCURRENCY">>,
    hook |-> FALSE,
    dict |->
       [ incometype |-> D("REINVEST", "OneOf", 0, INCOMETYPES, TRUE),
         total |-> D("REINVEST", "Decimal", 0, {}, TRUE),
         subacctsec |-> D("REINVEST", "OneOf", 0, INVSUBACCTS, TRUE),
         units |-> D("REINVEST", "Decimal", 0, {}, TRUE),
         unitprice |-> D("REINVEST", "Decimal", 4, {}, TRUE),
         commission |-> D("REINVEST", "Decimal", 0, {}, FALSE),
         taxes |-> D("REINVEST", "Decimal", 0, {}, FALSE),
         fees |-> D("REINVEST", "Decimal", 0, {}, FALSE),
         load |-> D("REINVEST", "Decimal", 0, {}, FALSE),
         taxexempt |-> D("REINVEST", "Bool", 0, {}, FALSE),
         inv401ksource |-> D("REINVEST", "OneOf", 0, INV401KSOURCES, FALSE) ] ]

RETOFCAP ==
  [ name |-> "RETOFCAP",
    bases |-> <<"INVTRAN", "SECID", "ORIGCURRENCY">>,
    hook |-> FALSE,
    dict |->
       [ total |-> D("RETOFCAP", "Decimal", 0, {}, TRUE),
         subacctsec |-> D("RETOFCAP", "OneOf", 0, INVSUBACCTS, TRUE),
         subacctfund |-> D("RETOFCAP", "OneOf", 0, INVSUBACCTS, TRUE),
         inv401ksource |-> D("RETOFCAP", "OneOf", 0, INV401KSOURCES, FALSE) ] ]

SELLDEBT ==
  [ name |-> "SELLDEBT",
    bases |-> <<"INVSELL">>,
    hook |-> FALSE,
    dict |->
       [ sellreason |-> D("SELLDEBT", "OneOf", 0, {"CALL", "SELL", "MATURITY"}, TRUE),
         accrdint |-> D("SELLDEBT", "Decimal", 0, {}, FALSE) ] ]

SELLMF ==
  [ name |-> "SELLMF",
    bases |-> <<"INVSELL">>,
    hook |-> FALSE,
    dict |->
       [ selltype |-> D("SELLMF", "OneOf", 0, SELLTYPES, TRUE),
         avgcostbasis |-> D("SELLMF", "Decimal", 0, {}, FALSE),
         relfitid |-> D("SELLMF", "String", 255, {}, FALSE) ] ]

SELLOPT ==
  [ name |-> "SELLOPT",
    bases |-> <<"INVSELL">>,
    hook |-> FALSE,
    dict |->
       [ optselltype |-> D("SELLOPT", "OneOf", 0, {"SELLTOCLOSE", "SELLTOOPEN"}, TRUE),
         shperctrct |-> D("SELLOPT", "Integer", 0, {}, TRUE),
         relfitid |-> D("SELLOPT", "String", 255, {}, FALSE),
         reltype |-> D("SELLOPT", "OneOf", 0, {"SPREAD", "STRADDLE", "NONE", "OTHER"}, FALSE),
         secured |-> D("SELLOPT", "OneOf", 0, {"NAKED", "COVERED"}, FALSE) ] ]

SELLOTHER ==
  [ name |-> "SELLOTHER",
    bases |-> <<"INVSELL">>,
    hook |-> FALSE,
    dict |->
       <<>> ]

SELLSTOCK ==
  [ name |-> "SELLSTOCK",
    bases |-> <<"INVSELL">>,
    hook |-> FALSE,
    dict |->
       [ selltype |-> D("SELLSTOCK", "OneOf", 0, SELLTYPES, TRUE) ] ]

SPLIT ==
  [ name |-> "SPLIT",
    bases |-> <<"INVTRAN", "SECID">>,
    hook |-> FALSE,
    dict |->
       [ subacctsec |-> D("SPLIT", "OneOf", 0, INVSUBACCTS, TRUE),
         oldunits |-> D("SPLIT", "Decimal", 0, {}, TRUE),
         newunits |-> D("SPLIT", "Decimal", 0, {}, TRUE),
         numerator |-> D("SPLIT", "Decimal", 0, {}, TRUE),
         denominator |-> D("SPLIT", "Decimal", 0, {}, TRUE),
         fraccash |-> D("SPLIT", "Decimal", 0, {}, FALSE),
         subacctfund |-> D("SPLIT", "OneOf", 0, INVSUBACCTS, FALSE),
         inv401ksource |-> D("SPLIT", "OneOf", 0, INV401KSOURCES, FALSE) ] ]

TRANSFER ==
  [ name |-> "TRANSFER",
    bases |-> <<"INVTRAN", "SECID">>,
    hook |-> FALSE,
    dict |->
       [ subacctsec |-> D("TRANSFER", "OneOf", 0, INVSUBACCTS, TRUE),
         units |-> D("TRANSFER", "Decimal", 0, {}, TRUE),
         tferaction |-> D("TRANSFER", "OneOf", 0, {"IN", "OUT"}, TRUE),
         postype |-> D("TRANSFER", "OneOf", 0, {"SHORT", "LONG"}, TRUE),
         avgcostbasis |-> D("TRANSFER", "Decimal", 0, {}, FALSE),
         unitprice |-> D("TRANSFER", "Decimal", 0, {}, FALSE),
         dtpurchase |-> D("TRANSFER", "DateTime", 0, {}, FALSE),
         inv401ksource |-> D("TRANSFER", "OneOf", 0, INV401KSOURCES, FALSE) ] ]

INVPOS ==
  [ name |-> "INVPOS",
    bases |-> <<"SECID", "CURRENCY">>,
    hook |-> FALSE,
    dict |->
       [ heldinacct |-> D("INVPOS", "OneOf", 0, INVSUBACCTS, TRUE),
         postype |-> D("INVPOS", "OneOf", 0, {"SHORT", "LONG"}, TRUE),
         units |-> D("INVPOS", "Decimal", 0, {}, TRUE),
         unitprice |-> D("INVPOS", "Decimal", 4, {}, TRUE),
         mktval |-> D("INVPOS", "Decimal", 0, {}, TRUE),
         dtpriceasof |-> D("INVPOS", "DateTime", 0, {}, TRUE),
         memo |-> D("INVPOS", "String", 255, {}, FALSE),
         inv401ksource |-> D("INVPOS", "OneOf", 0, INV401KSOURCES, FALSE) ] ]

POSDEBT ==
  [ name |-> "POSDEBT",
    bases |-> <<"INVPOS">>,
    hook |-> FALSE,
    dict |->
       <<>> ]

POSMF ==
  [ name |-> "POSMF",
    bases |-> <<"INVPOS">>,
    hook |-> FALSE,
    dict |->
       [ unitsstreet |-> D("POSMF", "Decimal", 0, {}, FALSE),
         unitsuser |-> D("POSMF", "Decimal", 0, {}, FALSE),
         reinvdiv |-> D("POSMF", "Bool", 0, {}, FALSE),
         reinvcg |-> D("POSMF", "Bool", 0, {}, FALSE) ] ]

POSOPT ==
  [ name |-> "POSOPT",
    bases |-> <<"INVPOS">>,
    hook |-> FALSE,
    dict |->
       [ secured |-> D("POSOPT", "OneOf", 0, {"NAKED", "COVERED"}, FALSE) ] ]

POSOTHER ==
  [ name |-> "POSOTHER",
    bases |-> <<"INVPOS">>,
    hook |-> FALSE,
    dict |->
       <<>> ]

POSSTOCK ==
  [ name |-> "POSSTOCK",
    bases |-> <<"INVPOS">>,
    hook |-> FALSE,
    dict |->
       [ unitsstreet |-> D("POSSTOCK", "Decimal", 0, {}, FALSE),
         unitsuser |-> D("POSSTOCK", "Decimal", 0, {}, FALSE),
         reinvdiv |-> D("POSSTOCK", "Bool", 0, {}, FALSE) ] ]
\* the Aggregate subclasses bound in the module namespace
SchemaClasses ==
  "FI" :> FI @@ "STATUS" :> STATUS @@ "SONRS" :> SONRS @@ "CURRENCY" :> CURRENCY @@
  "ORIGCURRENCY" :> ORIGCURRENCY @@ "ACCTFROM" :> ACCTFROM @@ "BANKACCTFROM" :> BANKACCTFROM @@ "BANKACCTTO" :> BANKACCTTO @@
  "CCACCTFROM" :> CCACCTFROM @@ "CCACCTTO" :> CCACCTTO @@ "INVACCTFROM" :> INVACCTFROM @@ "LEDGERBAL" :> LEDGERBAL @@
  "AVAILBAL" :> AVAILBAL @@ "INVBAL" :> INVBAL @@ "BAL" :> BAL @@ "SECID" :> SECID @@
  "SECINFO" :> SECINFO @@ "DEBTINFO" :> DEBTINFO @@ "MFINFO" :> MFINFO @@ "PORTION" :> PORTION @@
  "FIPORTION" :> FIPORTION @@ "OPTINFO" :> OPTINFO @@ "OTHERINFO" :> OTHERINFO @@ "STOCKINFO" :> STOCKINFO @@
  "PAYEE" :> PAYEE @@ "TRAN" :> TRAN @@ "STMTTRN" :> STMTTRN @@ "INVBANKTRAN" :> INVBANKTRAN @@
  "INVTRAN" :> INVTRAN @@ "INVBUY" :> INVBUY @@ "INVSELL" :> INVSELL @@ "BUYDEBT" :> BUYDEBT @@
  "BUYMF" :> BUYMF @@ "BUYOPT" :> BUYOPT @@ "BUYOTHER" :> BUYOTHER @@ "BUYSTOCK" :> BUYSTOCK @@
  "CLOSUREOPT" :> CLOSUREOPT @@ "INCOME" :> INCOME @@ "INVEXPENSE" :> INVEXPENSE @@ "JRNLFUND" :> JRNLFUND @@
  "JRNLSEC" :> JRNLSEC @@ "MARGININTEREST" :> MARGININTEREST @@ "REINVEST" :> REINVEST @@ "RETOFCAP" :> RETOFCAP @@
  "SELLDEBT" :> SELLDEBT @@ "SELLMF" :> SELLMF @@ "SELLOPT" :> SELLOPT @@ "SELLOTHER" :> SELLOTHER @@
  "SELLSTOCK" :> SELLSTOCK @@ "SPLIT" :> SPLIT @@ "TRANSFER" :> TRANSFER @@ "INVPOS" :> INVPOS @@
  "POSDEBT" :> POSDEBT @@ "POSMF" :> POSMF @@ "POSOPT" :> POSOPT @@ "POSOTHER" :> POSOTHER @@
  "POSSTOCK" :> POSSTOCK

\* the names bound in the module namespace to something that is not a class
\* of this file: imports and the enumeration tuples
OtherGlobals ==
  {"ET", "ofxtools", "Element", "Bool", "String", "OneOf", "Integer",
   "Decimal", "DateTime", "NagString", "LANG_CODES", "CURRENCY_CODES",
   "COUNTRY_CODES", "INV401KSOURCES", "ACCTTYPES", "INVSUBACCTS", "BUYTYPES",
   "SELLTYPES", "INCOMETYPES", "ASSETCLASSES"}

SchemaNames == DOMAIN SchemaClasses

\* every class reachable through a base list
Classes == SchemaClasses @@ ("Aggregate" :> Aggregate) @@ ("object" :> Object)

\* globals() of the module
GlobalNames == SchemaNames \cup {"Aggregate"} \cup OtherGlobals

-----------------------------------------------------------------------------
(* Ancestor linearization: cls.__mro__ *)

InTail(c, s) == \E i \in 2..Len(s) : s[i] = c

RECURSIVE Merge(_)
\* C3 merge: repeatedly take the first head that is in no other tail
Merge(seqs) ==
  LET rest == SelectSeq(seqs, LAMBDA s : s # <<>>)
  IN IF rest = <<>> THEN <<>>
     ELSE LET good(i) == \A j \in 1..Len(rest) : ~InTail(rest[i][1], rest[j])
              i == CHOOSE k \in 1..Len(rest) :
                     good(k) /\ \A l \in 1..(k - 1) : ~good(l)
              h == rest[i][1]
          IN <<h>> \o Merge([j \in 1..Len(rest) |->
                               IF rest[j][1] = h THEN Tail(rest[j]) ELSE rest[j]])

RECURSIVE Linearize(_)
Linearize(c) ==
  LET bases == Classes[c].bases
  IN <<c>> \o Merge([i \in 1..Len(bases) |-> Linearize(bases[i])] \o <<bases>>)

\* __mro__ of every class, as class names, most derived first
Mro == [c \in DOMAIN Classes |-> Linearize(c)]

\* the namespaces (__dict__) of the classes of a linearization
MroDicts(c) == [i \in 1..Len(Mro[c]) |-> Classes[Mro[c][i]].dict]

-----------------------------------------------------------------------------
(* Aggregate.elements *)

\* {k: v for k, v in m.__dict__.items() if isinstance(v, Element)}
ElementItems(mdict) ==
  [k \in {n \in DOMAIN mdict : IsElement(mdict[n])} |-> mdict[k]]

\* one iteration of the loop: d.update(...)
ElementsStep(d, mdict) == Update(d, ElementItems(mdict))

RECURSIVE ElementsFold(_, _, _)
ElementsFold(dicts, i, d) ==
  IF i > Len(dicts) THEN d
  ELSE ElementsFold(dicts, i + 1, ElementsStep(d, dicts[i]))

\* the elements property computed over a linearization of class namespaces
ElementsOf(dicts) == ElementsFold(dicts, 1, EmptyDict)

\* the elements property of every class
Elements == [c \in DOMAIN Classes |-> ElementsOf(MroDicts(c))]

\* the attribute type(self).name that setattr(self, name, value) finds: the
\* one of the first class of the linearization that declares the name
ClassAttr(dicts, name) ==
  dicts[CHOOSE i \in 1..Len(dicts) :
          /\ name \in DOMAIN dicts[i]
          /\ \A j \in 1..(i - 1) : name \notin DOMAIN dicts[j]][name]

-----------------------------------------------------------------------------
(* Markup nodes *)

Leaf(tag, text) == [tag |-> tag, text |-> text, kids |-> <<>>]

Agg(tag, kids) == [tag |-> tag, text |-> None, kids |-> kids]

\* elem.find(tag), elem.find('./' + tag): position of the first direct
\* child with that tag, 0 when there is none
Find(elem, tag) ==
  IF \E i \in 1..Len(elem.kids) : elem.kids[i].tag = tag
  THEN CHOOSE i \in 1..Len(elem.kids) :
         /\ elem.kids[i].tag = tag
         /\ \A j \in 1..(i - 1) : elem.kids[j].tag # tag
  ELSE 0

\* elem.find('*/' + tag): the first grandchild with that tag in document
\* order, as a sequence holding it, empty when there is none
FindGrand(elem, tag) ==
  LET has(i) == Find(elem.kids[i], tag) # 0
  IN IF \E i \in 1..Len(elem.kids) : has(i)
     THEN LET i == CHOOSE k \in 1..Len(elem.kids) :
                     has(k) /\ \A l \in 1..(k - 1) : ~has(l)
          IN <<elem.kids[i].kids[Find(elem.kids[i], tag)]>>
     ELSE <<>>

\* elem.remove(child) for the child at position i
Remove(elem, i) ==
  [elem EXCEPT !.kids = SubSeq(elem.kids, 1, i - 1)
                          \o SubSeq(elem.kids, i + 1, Len(elem.kids))]

\* bool(element): an element without children is false
Truthy(found) == found # <<>> /\ Len(found[1].kids) > 0

\* a or b on the results of two find calls
OrElse(a, b) == IF Truthy(a) THEN a ELSE b

-----------------------------------------------------------------------------
(* Aggregate._groom *)

\* variant: the list without its last pair
DualRelationshipsShort ==
  << <<"CCACCTTO", "BANKACCTTO">>, <<"NAME", "PAYEE">> >>

DualRelationships ==
  << <<"CCACCTTO", "BANKACCTTO">>, <<"NAME", "PAYEE">>,
     <<"CURRENCY", "ORIGCURRENCY">> >>

\* the rename of the first direct YIELD child to YLD
GroomRename(elem) ==
  LET yld == Find(elem, "YIELD")
  IN IF yld # 0 THEN [elem EXCEPT !.kids[yld].tag = "YLD"] ELSE elem

HasBoth(elem, pair) == Find(elem, pair[1]) # 0 /\ Find(elem, pair[2]) # 0

\* the pairs whose two members are both direct children
Conflicts(elem) ==
  {i \in 1..Len(DualRelationships) : HasBoth(elem, DualRelationships[i])}

\* the pair the loop raises for: the first one found in list order
FirstConflict(elem) ==
  DualRelationships[CHOOSE i \in Conflicts(elem) :
                      \A j \in Conflicts(elem) : i <= j]

-----------------------------------------------------------------------------
(* Aggregate._flatten *)

FlattenFails == [ok |-> FALSE, val |-> EmptyDict]

FlattenYields(d) == [ok |-> TRUE, val |-> d]

\* variant: every data-bearing leaf is entered
KeepsAnyLeaf(tag) == TRUE

\* whether a data-bearing leaf is entered in leaves
KeepsLeaf(tag) == ~HasDot(tag)

\* the assertion guarding a data-bearing leaf
LeafGuard(tag, leaves) == tag \notin DOMAIN leaves

\* the assertion guarding a sub-aggregate
AggGuard(tag, aggs) == tag \notin DOMAIN aggs

\* the closing assertion: no key of aggs is a key of leaves
MergeGuard(aggs, leaves) == \A key \in DOMAIN aggs : key \notin DOMAIN leaves

RECURSIVE Flatten(_)
RECURSIVE FlattenLoop(_, _, _, _)
\* the loop over the children from position i on, then the merge
FlattenLoop(kids, i, aggs, leaves) ==
  IF i > Len(kids)
  THEN IF MergeGuard(aggs, leaves)
       THEN FlattenYields(Update(leaves, aggs))
       ELSE FlattenFails
  ELSE LET child == kids[i]
           tag == child.tag
           data == Strip(child.text)
       IN IF data # ""
          THEN IF ~LeafGuard(tag, leaves) THEN FlattenFails
               ELSE IF KeepsLeaf(tag)
                    THEN FlattenLoop(kids, i + 1, aggs,
                                     Update(leaves, Lower(tag) :> data))
                    ELSE FlattenLoop(kids, i + 1, aggs, leaves)
          ELSE IF ~AggGuard(tag, aggs) THEN FlattenFails
               ELSE LET sub == Flatten(child)
                    IN IF ~sub.ok THEN FlattenFails
                       ELSE FlattenLoop(kids, i + 1,
                                        Update(aggs, sub.val), leaves)

\* the flat dict of an element, or the failure of one of its assertions
Flatten(element) == FlattenLoop(element.kids, 1, EmptyDict, EmptyDict)

-----------------------------------------------------------------------------
(* The pre-flatten hooks *)

\* what a hook hands back, with the element as the hook left it
Hooked(attrs, subaggs, elem) ==
  [attrs |-> attrs, subaggs |-> subaggs, elem |-> elem]

\* Aggregate._preflatten
PreflattenAggregate(elem) == Hooked(EmptyDict, EmptyDict, elem)

\* the element whose text becomes curtype, as a sequence, empty for None
CurtypeSource(elem) ==
  OrElse(FindGrand(elem, "CURRENCY"), FindGrand(elem, "ORIGCURRENCY"))

\* what is stored under attr['curtype']
CurtypeValue(found) == found[1].text

\* ORIGCURRENCY._preflatten
PreflattenORIGCURRENCY(elem) ==
  LET up == PreflattenAggregate(elem)
      curtype == CurtypeSource(elem)
  IN IF curtype # <<>>
     THEN Hooked(Update(up.attrs, "curtype" :> CurtypeValue(curtype)),
                 up.subaggs, up.elem)
     ELSE up

\* find a direct child by tag; when there is one, remove it from the element
\* and bind it in subaggs under the tag
Detach(h, tag) ==
  LET i == Find(h.elem, tag)
  IN IF i # 0
     THEN Hooked(h.attrs, Update(h.subaggs, tag :> h.elem.kids[i]),
                 Remove(h.elem, i))
     ELSE h

\* MFINFO._preflatten
PreflattenMFINFO(elem) ==
  Detach(Detach(PreflattenAggregate(elem), "MFASSETCLASS"), "FIMFASSETCLASS")

\* variant: the element is handed on as it came
KeepUnderlying(elem) == elem

\* the element OPTINFO._preflatten hands on to _flatten
DropUnderlying(elem) ==
  LET secid == Find(elem, "SECID")
  IN IF secid # 0 THEN Remove(elem, secid) ELSE elem

\* OPTINFO._preflatten
PreflattenOPTINFO(elem) ==
  LET up == PreflattenAggregate(elem)
  IN Hooked(up.attrs, up.subaggs, DropUnderlying(up.elem))

\* STMTTRN._preflatten
PreflattenSTMTTRN(elem) ==
  Detach(Detach(Detach(PreflattenORIGCURRENCY(elem), "CCACCTTO"),
                "BANKACCTTO"), "PAYEE")

\* the class whose _preflatten the attribute lookup SubClass._preflatten finds
HookOwner(cls) ==
  Mro[cls][CHOOSE i \in 1..Len(Mro[cls]) :
             /\ Classes[Mro[cls][i]].hook
             /\ \A j \in 1..(i - 1) : ~Classes[Mro[cls][j]].hook]

\* SubClass._preflatten(elem)
Preflatten(cls, elem) ==
  CASE HookOwner(cls) = "STMTTRN" -> PreflattenSTMTTRN(elem)
    [] HookOwner(cls) = "ORIGCURRENCY" -> PreflattenORIGCURRENCY(elem)
    [] HookOwner(cls) = "MFINFO" -> PreflattenMFINFO(elem)
    [] HookOwner(cls) = "OPTINFO" -> PreflattenOPTINFO(elem)
    [] OTHER -> PreflattenAggregate(elem)

-----------------------------------------------------------------------------
(* Aggregate.__init__ *)

\* an exception: its Python type, the constant part of its message and the
\* values formatted into the message
Err(exc, what, on, names) ==
  [exc |-> exc, what |-> what, on |-> on, names |-> names]

NoErr == Err("", "", "", {})

NoInstance == [cls |-> "", fields |-> EmptyDict, subs |-> EmptyDict]

\* kwargs.pop(name, None)
Pop(kwargs, name) == IF name \in DOMAIN kwargs THEN kwargs[name] ELSE None

\* setattr(self, name, value) through the descriptor bound to the name
SetAttr(cls, name, value) == Convert(ClassAttr(MroDicts(cls), name), value)

\* variant: only the fields given in kwargs are assigned
FailingGiven(cls, kwargs) ==
  {name \in (DOMAIN Elements[cls]) \cap (DOMAIN kwargs) :
     ~SetAttr(cls, name, kwargs[name]).ok}

\* the fields whose assignment raises ValueError
Failing(cls, kwargs) ==
  {name \in DOMAIN Elements[cls] : ~SetAttr(cls, name, Pop(kwargs, name)).ok}

\* variant: what is left in kwargs is not looked at
LeftoverIgnored(cls, kwargs) == {}

\* what is left in kwargs after every field popped its key
Leftover(cls, kwargs) == (DOMAIN kwargs) \ (DOMAIN Elements[cls])

\* the instance whose every field accepted its value
Built(cls, kwargs) ==
  [cls |-> cls,
   fields |-> [name \in DOMAIN Elements[cls] |->
                  SetAttr(cls, name, Pop(kwargs, name)).val],
   subs |-> EmptyDict]

\* the error __init__ raises when field name rejects its value
FieldError(cls, name) == Err("ValueError", "Can't create", cls, {name})

\* the error __init__ raises for the keys no field popped
UndefinedError(cls, kwargs) ==
  Err("ValueError", "Undefined element(s)", cls, Leftover(cls, kwargs))

-----------------------------------------------------------------------------
(* The frames of a decode call *)

NewFrame(node) ==
  [entry |-> node, elem |-> node, pc |-> "groom", SubClass |-> "",
   attrs |-> EmptyDict, subaggs |-> EmptyDict, attributes |-> EmptyDict,
   instance |-> NoInstance, todo |-> {}, calling |-> "", ran |-> {}]

Top == stack[Len(stack)]

Running == outcome.status = "running"

At(pc) == Running /\ stack # <<>> /\ Top.pc = pc

\* the top frame after the statement named step ran
Ran(f, step) == [f EXCEPT !.ran = @ \cup {step}]

\* the statement completes: the top frame becomes f
Continue(f) ==
  /\ stack' = [stack EXCEPT ![Len(stack)] = f]
  /\ UNCHANGED <<input, outcome, emro, ei, ed>>

\* the statement raises in top frame f: the exception leaves every frame, and
\* what remains is the caller's element as the frames left it
Raise(f, err) ==
  /\ outcome' = [status |-> "raised", err |-> err, instance |-> NoInstance,
                 frame |-> f, depth |-> Len(stack)]
  /\ stack' = << [(IF Len(stack) = 1 THEN f ELSE stack[1])
                    EXCEPT !.pc = "raised"] >>
  /\ UNCHANGED <<input, emro, ei, ed>>

-----------------------------------------------------------------------------
(* Input trees *)

DateText == "20230101120000"

\* the concatenation of a sequence of sequences
RECURSIVE Flat(_)
Flat(parts) == IF parts = <<>> THEN <<>> ELSE Head(parts) \o Flat(Tail(parts))

\* a part of a tree that is there or not
Maybe(kids) == {<<>>, kids}

\* n copies of a node built from its position
Copies(n, node(_)) == [i \in 1..n |-> node(i)]

RECURSIVE Wrap(_, _)
\* a node nested in depth aggregates
Wrap(node, depth) ==
  IF depth = 0 THEN node
  ELSE Agg(IF depth = 1 THEN "AVAILBAL" ELSE "W", <<Wrap(node, depth - 1)>>)

RECURSIVE SeqsUpTo(_, _)
\* the sequences of at most n members of pool
SeqsUpTo(pool, n) ==
  IF n = 0 THEN {<<>>}
  ELSE SeqsUpTo(pool, n - 1)
         \cup {Append(s, x) : s \in {t \in SeqsUpTo(pool, n - 1) : Len(t) = n - 1},
                              x \in pool}

ShallowPool ==
  {Leaf("BALAMT", "1234.56"), Leaf("FOO", " USD "), Leaf("NAME", "n1"),
   Leaf("PAYEE", None), Leaf("balamt", None),
   Agg("INTU.AGG", <<Leaf("FOO", "5.00")>>)}

DeepPool ==
  {Leaf("BALAMT", "5.00"), Leaf("DTASOF", DateText), Leaf("INTU.BID", "5.00"),
   Leaf("balamt", "5.00")}

KidPool ==
  ShallowPool \cup {Wrap(leaf, depth) : leaf \in DeepPool, depth \in 0..(MaxDepth - 1)}

FreeRoots == {"LEDGERBAL", "CURRENCY", "FOO", "ACCTTYPES", "Aggregate"}

\* free-form trees: any root over any short sequence of pool members
FreeTrees == {Agg(root, kids) : root \in FreeRoots, kids \in SeqsUpTo(KidPool, MaxKids)}

\* balance aggregates with each child there or not
BalanceTrees ==
  {Agg(root, Flat(<<amt, asof, foo, memo, bid>>)) :
     root \in {"LEDGERBAL", "AVAILBAL"},
     amt \in {<<>>, <<Leaf("BALAMT", "1234.56")>>, <<Leaf("BALAMT", "abc")>>},
     asof \in Maybe(<<Leaf("DTASOF", DateText)>>),
     foo \in Maybe(<<Leaf("FOO", "5.00")>>),
     memo \in Maybe(<<Leaf("MEMO", "m1")>>),
     bid \in Maybe(<<Leaf("INTU.BID", "5.00")>>)}

CurrencyKids == <<Leaf("CURRATE", "1.0850"), Leaf("CURSYM", "USD")>>

\* the ways a transaction declares its currency: not at all, by a direct
\* CURRENCY or ORIGCURRENCY child (the wire format), by both, or by one
\* nested one level down, with and without text of its own
CurrencyParts ==
  { <<>>,
    <<Agg("CURRENCY", CurrencyKids)>>,
    <<Agg("ORIGCURRENCY", CurrencyKids)>>,
    <<Agg("CURRENCY", CurrencyKids), Agg("ORIGCURRENCY", CurrencyKids)>>,
    <<[tag |-> "CURRENCY", text |-> " ", kids |-> CurrencyKids]>>,
    <<Agg("W", <<Agg("CURRENCY", CurrencyKids)>>)>>,
    <<Agg("W", <<Agg("ORIGCURRENCY", CurrencyKids)>>)>>,
    <<Agg("W", <<[tag |-> "CURRENCY", text |-> " ", kids |-> CurrencyKids]>>)>>,
    <<Agg("W", <<[tag |-> "CURRENCY", text |-> "CURRENCY", kids |-> CurrencyKids]>>)>>,
    <<Agg("W", <<Agg("CURRENCY", <<>>)>>), Agg("V", <<Agg("ORIGCURRENCY", CurrencyKids)>>)>> }

PayeeKids ==
  <<Leaf("NAME", "n1"), Leaf("ADDR1", "a1"), Leaf("CITY", "c1"),
    Leaf("STATE", "s1"), Leaf("POSTALCODE", "p1"), Leaf("PHONE", "100")>>

\* bank statement transactions
StmtTrnTrees ==
  {Agg("STMTTRN",
       Flat(<< <<Leaf("TRNTYPE", "DEBIT"), Leaf("DTPOSTED", DateText),
                 Leaf("TRNAMT", "1234.56")>>,
               fitid, name, cur, cc, bank, payee >>)) :
     fitid \in Maybe(<<Leaf("FITID", "f1")>>),
     name \in Maybe(<<Leaf("NAME", "n1")>>),
     cur \in CurrencyParts,
     cc \in Maybe(<<Agg("CCACCTTO", <<Leaf("ACCTID", "a1")>>)>>),
     bank \in Maybe(<<Agg("BANKACCTTO", <<Leaf("BANKID", "b1"), Leaf("ACCTID", "a1"),
                                         Leaf("ACCTTYPE", "CHECKING")>>)>>),
     payee \in {<<>>, <<Agg("PAYEE", PayeeKids)>>, <<Agg("PAYEE", Tail(PayeeKids))>>}}

InvTranKids ==
  <<Agg("INVTRAN", <<Leaf("FITID", "f1"), Leaf("DTTRADE", DateText)>>),
    Agg("SECID", <<Leaf("UNIQUEID", "opt1"), Leaf("UNIQUEIDTYPE", "CUSIP")>>)>>

SubAcctKids == <<Leaf("SUBACCTSEC", "CASH"), Leaf("SUBACCTFUND", "CASH")>>

DirectCurrencyParts ==
  {<<>>, <<Agg("CURRENCY", CurrencyKids)>>, <<Agg("ORIGCURRENCY", CurrencyKids)>>}

InvBuyKids(cur) ==
  Flat(<<InvTranKids,
         <<Leaf("UNITS", "100"), Leaf("UNITPRICE", "5.00"), Leaf("TOTAL", "1234.56")>>,
         SubAcctKids, cur>>)

\* investment transactions in their wire shape
InvestTrees ==
  {Agg("INCOME", Flat(<<InvTranKids,
                        <<Leaf("INCOMETYPE", "DIV"), Leaf("TOTAL", "1234.56")>>,
                        SubAcctKids, cur>>)) : cur \in DirectCurrencyParts}
  \cup {Agg("INVBUY", InvBuyKids(cur)) : cur \in DirectCurrencyParts}
  \cup {Agg("BUYSTOCK", <<Agg("INVBUY", InvBuyKids(cur)), Leaf("BUYTYPE", "BUY")>>) :
          cur \in DirectCurrencyParts}

SecInfoNode(secid) ==
  Agg("SECINFO", secid \o <<Leaf("SECNAME", "n1")>>)

OptionSecId ==
  <<Agg("SECID", <<Leaf("UNIQUEID", "opt1"), Leaf("UNIQUEIDTYPE", "CUSIP")>>)>>

PercentTexts == <<"100", "5.00", "1234.56", "1.0850">>

\* the i-th asset-class element, told apart by the percentage it carries
AssetClassNode(i, filled) ==
  Agg("MFASSETCLASS",
      IF filled
      THEN <<Agg("PORTION",
                 <<Leaf("ASSETCLASS", "OTHER"),
                   Leaf("PERCENT", PercentTexts[IF i <= Len(PercentTexts) THEN i ELSE 1])>>)>>
      ELSE <<>>)

\* mutual-fund security information with repeated asset-class elements
MfInfoTrees ==
  {Agg("MFINFO",
       Flat(<< <<SecInfoNode(OptionSecId)>>, yld,
               Copies(n, LAMBDA i : AssetClassNode(i, filled)), fi >>)) :
     yld \in Maybe(<<Leaf("YIELD", "5.00")>>),
     n \in 0..MaxRepeat,
     filled \in BOOLEAN,
     fi \in Maybe(<<Agg("FIMFASSETCLASS", <<>>)>>)}

UnderlyingSecId ==
  Agg("SECID", <<Leaf("UNIQUEID", "und1"), Leaf("UNIQUEIDTYPE", "ISIN")>>)

OptInfoKids ==
  <<Leaf("OPTTYPE", "CALL"), Leaf("STRIKEPRICE", "5.00"),
    Leaf("DTEXPIRE", DateText), Leaf("SHPERCTRCT", "100")>>

\* option security information with the identifier of the underlying
OptInfoTrees ==
  {Agg("OPTINFO",
       IF first
       THEN Flat(<<Copies(n, LAMBDA i : UnderlyingSecId),
                   <<SecInfoNode(own)>>, OptInfoKids>>)
       ELSE Flat(<< <<SecInfoNode(own)>>, OptInfoKids,
                    Copies(n, LAMBDA i : UnderlyingSecId)>>)) :
     first \in BOOLEAN, own \in Maybe(OptionSecId), n \in 0..MaxRepeat}

InputTrees ==
  FreeTrees \cup BalanceTrees \cup StmtTrnTrees \cup InvestTrees
    \cup MfInfoTrees \cup OptInfoTrees

-----------------------------------------------------------------------------
(* Aggregate.from_etree *)

Idle == [status |-> "idle", err |-> NoErr, instance |-> NoInstance,
         frame |-> NewFrame(Leaf("", None)), depth |-> 0]

Init ==
  /\ input \in InputTrees
  /\ stack = <<NewFrame(input)>>
  /\ outcome = [Idle EXCEPT !.status = "running"]
  /\ emro = <<>>
  /\ ei = 0
  /\ ed = EmptyDict

\* the error _groom raises for an element with both members of a pair
BothError(elem) ==
  Err("ValueError", "may not contain both", elem.tag,
      {FirstConflict(elem)[1], FirstConflict(elem)[2]})

\* cls._groom(elem)
Groom ==
  /\ At("groom")
  /\ LET f == Ran([Top EXCEPT !.elem = GroomRename(Top.elem)], "groom")
     IN IF Conflicts(f.elem) # {}
        THEN Raise(f, BothError(f.elem))
        ELSE Continue([f EXCEPT !.pc = "lookup"])

\* SubClass = globals()[elem.tag]
Lookup ==
  /\ At("lookup")
  /\ LET f == Ran(Top, "lookup")
     IN IF f.elem.tag \in GlobalNames
        THEN Continue([f EXCEPT !.SubClass = f.elem.tag, !.pc = "preflatten"])
        ELSE Raise(f, Err("KeyError", "", f.elem.tag, {}))

\* attrs, subaggs = SubClass._preflatten(elem)
PreflattenCall ==
  /\ At("preflatten")
  /\ LET f == Ran(Top, "preflatten")
     IN IF f.SubClass \in OtherGlobals
        THEN Raise(f, Err("AttributeError", "_preflatten", f.SubClass, {}))
        ELSE LET h == Preflatten(f.SubClass, f.elem)
             IN Continue([f EXCEPT !.attrs = h.attrs, !.subaggs = h.subaggs,
                                   !.elem = h.elem, !.pc = "flatten"])

\* attributes = cls._flatten(elem)
FlattenCall ==
  /\ At("flatten")
  /\ LET f == Ran(Top, "flatten")
         flat == Flatten(f.elem)
     IN IF flat.ok
        THEN Continue([f EXCEPT !.attributes = flat.val, !.pc = "construct"])
        ELSE Raise(f, Err("AssertionError", "", "", {}))

\* instance = SubClass(**attributes); the loop over the fields stops at the
\* first one that rejects its value, in the iteration order of the dict
Construct ==
  /\ At("construct")
  /\ LET f == Ran(Top, "construct")
         cls == f.SubClass
         kwargs == f.attributes
     IN \/ \E name \in Failing(cls, kwargs) : Raise(f, FieldError(cls, name))
        \/ /\ Failing(cls, kwargs) = {}
           /\ Leftover(cls, kwargs) # {}
           /\ Raise(f, UndefinedError(cls, kwargs))
        \/ /\ Failing(cls, kwargs) = {}
           /\ Leftover(cls, kwargs) = {}
           /\ Continue([f EXCEPT !.instance = Built(cls, kwargs),
                                 !.pc = "postflatten"])

\* _postflatten, first loop: setattr(instance, attr, value) for the attrs
PostflattenAttrs ==
  /\ At("postflatten")
  /\ LET f == Ran(Top, "postflatten")
         cls == f.instance.cls
         bad == {a \in DOMAIN f.attrs : ~SetAttr(cls, a, f.attrs[a]).ok}
     IN IF bad # {}
        THEN \E a \in bad : Raise(f, Err("ValueError", "", "", {a}))
        ELSE Continue([f EXCEPT
               !.instance.fields =
                  Update(@, [a \in DOMAIN f.attrs |-> SetAttr(cls, a, f.attrs[a]).val]),
               !.todo = DOMAIN f.subaggs,
               !.pc = "subaggs"])

\* _postflatten, second loop: Aggregate.from_etree(elem) for the next
\* sub-aggregate; every value a hook binds in subaggs is a single element
PostflattenSubagg ==
  /\ At("subaggs")
  /\ \E tag \in Top.todo :
       /\ stack' = Append([stack EXCEPT ![Len(stack)] =
                             [Top EXCEPT !.calling = tag, !.pc = "calling"]],
                          NewFrame(Top.subaggs[tag]))
       /\ UNCHANGED <<input, outcome, emro, ei, ed>>

\* what setattr(instance, tag.lower(), ...) binds for a single element
Nested(instance) == [list |-> FALSE, items |-> <<instance>>]

\* return instance, to the _postflatten loop of the calling frame
ReturnNested ==
  /\ At("subaggs")
  /\ Top.todo = {}
  /\ Len(stack) > 1
  /\ LET caller == stack[Len(stack) - 1]
     IN stack' = Append(SubSeq(stack, 1, Len(stack) - 2),
                        [caller EXCEPT
                           !.instance.subs =
                              Update(@, Lower(caller.calling) :> Nested(Top.instance)),
                           !.todo = @ \ {caller.calling},
                           !.calling = "",
                           !.pc = "subaggs"])
  /\ UNCHANGED <<input, outcome, emro, ei, ed>>

\* return instance, to the caller of the decode
Return ==
  /\ At("subaggs")
  /\ Top.todo = {}
  /\ Len(stack) = 1
  /\ outcome' = [status |-> "returned", err |-> NoErr, instance |-> Top.instance,
                 frame |-> Top, depth |-> 1]
  /\ stack' = <<[Top EXCEPT !.pc = "returned"]>>
  /\ UNCHANGED <<input, emro, ei, ed>>

Next ==
  \/ Groom
  \/ Lookup
  \/ PreflattenCall
  \/ FlattenCall
  \/ Construct
  \/ PostflattenAttrs
  \/ PostflattenSubagg
  \/ ReturnNested
  \/ Return

Spec == Init /\ [][Next]_vars

-----------------------------------------------------------------------------
(* The elements property, one loop iteration at a time *)

SyntheticNames == {"memo", "unitprice"}

\* what the body of a class does with a name: nothing, bind an Element, or
\* bind a plain object
Declarations == [SyntheticNames -> {"absent", "String", "NoneType"}]

\* the namespace of the class at position i of a linearization
SyntheticDict(i, decl) ==
  [n \in {m \in SyntheticNames : decl[m] # "absent"} |->
      D("K" \o ToString(i), decl[n], 0, {}, FALSE)]

\* linearizations of single-inheritance chains below Aggregate in which every
\* class is free to declare any of the names
SyntheticMros ==
  {[i \in DOMAIN choice |-> SyntheticDict(i, choice[i])]
       \o <<Aggregate.dict, Object.dict>> :
     choice \in UNION {[1..n -> Declarations] : n \in 1..MaxMro}}

MroInputs == {MroDicts(c) : c \in DOMAIN Classes} \cup SyntheticMros

InitElements ==
  /\ emro \in MroInputs
  /\ ei = 1
  /\ ed = EmptyDict
  /\ input = Leaf("", None)
  /\ stack = <<>>
  /\ outcome = Idle

\* for m in self.__class__.__mro__: d.update(...)
ElementsLoop ==
  /\ ei >= 1
  /\ ei <= Len(emro)
  /\ ed' = ElementsStep(ed, emro[ei])
  /\ ei' = ei + 1
  /\ UNCHANGED <<emro, input, stack, outcome>>

NextElements == ElementsLoop

SpecElements == InitElements /\ [][NextElements]_vars

-----------------------------------------------------------------------------
(* Properties *)

\* the frames of a state: those on the stack and the one that ended the call
Frames ==
  {stack[i] : i \in 1..Len(stack)}
    \cup (IF outcome.status \in {"raised", "returned"} THEN {outcome.frame} ELSE {})

\* _flatten returned a mapping in frame f
Flattened(f) == f.pc = "construct" \/ "construct" \in f.ran

HasChild(node, tag) == \E i \in 1..Len(node.kids) : node.kids[i].tag = tag

CountChildren(node, tag) ==
  Cardinality({i \in 1..Len(node.kids) : node.kids[i].tag = tag})

RECURSIVE Contribution(_)
\* the lowercase field names a child contributes to the flattened mapping
Contribution(child) ==
  IF Strip(child.text) # ""
  THEN IF HasDot(child.tag) THEN {} ELSE {Lower(child.tag)}
  ELSE UNION {Contribution(child.kids[i]) : i \in 1..Len(child.kids)}

\* two children of the node contribute the same field name
Collides(node) ==
  \E i, j \in 1..Len(node.kids) :
     i < j /\ Contribution(node.kids[i]) \cap Contribution(node.kids[j]) # {}

RECURSIVE CollidesBelow(_)
\* the node, or an aggregate at any depth below it, has two such children
CollidesBelow(node) ==
  \/ Collides(node)
  \/ \E i \in 1..Len(node.kids) :
        Strip(node.kids[i].text) = "" /\ CollidesBelow(node.kids[i])

\* C1: whenever two children of a node, at any depth of the flattened
\* element, contribute the same lowercase field name, _flatten fails: it
\* never returns a mapping for such an element.
C1_CollisionFails == \A f \in Frames : Flattened(f) => ~CollidesBelow(f.elem)

ExclusivePairs ==
  {{"CCACCTTO", "BANKACCTTO"}, {"NAME", "PAYEE"}, {"CURRENCY", "ORIGCURRENCY"}}

\* the declared pairs of which the node has both members as direct children
BothPresent(node) == {p \in ExclusivePairs : \A t \in p : HasChild(node, t)}

\* C2: a node passed to from_etree whose direct children include both
\* members of a declared mutually-exclusive pair never gets past _groom: the
\* call fails with the ValueError naming the node's tag and both tags of such
\* a pair, and neither the lookup, the pre-flatten hook, the flatten step nor
\* the construction ran for that node.
C2_ExclusiveRejected ==
  \A f \in Frames :
     BothPresent(f.entry) # {} =>
        /\ f.ran \subseteq {"groom"}
        /\ f.instance = NoInstance
        /\ "groom" \in f.ran =>
              /\ outcome.status = "raised"
              /\ outcome.err.exc = "ValueError"
              /\ outcome.err.what = "may not contain both"
              /\ outcome.err.on = f.entry.tag
              /\ outcome.err.names \in BothPresent(f.entry)

C2_Witness ==
  /\ outcome.status = "raised"
  /\ outcome.frame.entry.tag = "STMTTRN"
  /\ outcome.err.what = "may not contain both"
  /\ outcome.err.names = {"CCACCTTO", "BANKACCTTO"}
  /\ outcome.frame.ran = {"groom"}

\* the keys of the flattened mapping that name no field of the schema
Unclaimed(f) == (DOMAIN f.attributes) \ (DOMAIN Elements[f.SubClass])

\* the fields of the schema whose value, or absence, fails validation
Rejected(f) ==
  {n \in DOMAIN Elements[f.SubClass] :
     ~Convert(Elements[f.SubClass][n], Pop(f.attributes, n)).ok}

\* the required fields of the schema without a key in the flattened mapping
MissingRequired(f) ==
  {n \in DOMAIN Elements[f.SubClass] :
     Elements[f.SubClass][n].required /\ n \notin DOMAIN f.attributes}

\* the call failed in __init__ with the error of one rejected field of f
FieldErrorOf(f) ==
  /\ outcome.status = "raised"
  /\ outcome.err.exc = "ValueError"
  /\ outcome.err.what = "Can't create"
  /\ outcome.err.on = f.SubClass
  /\ \E n \in Rejected(f) : outcome.err.names = {n}

\* the call failed in __init__ with the error listing the unclaimed keys of f
UndefinedErrorOf(f) ==
  /\ outcome.status = "raised"
  /\ outcome.err.exc = "ValueError"
  /\ outcome.err.what = "Undefined element(s)"
  /\ outcome.err.on = f.SubClass
  /\ outcome.err.names = Unclaimed(f)

\* C3 as stated: construction from a mapping with a key that is no field of
\* the schema always fails with the error listing the unclaimed keys.
C3_UnclaimedAlwaysReported ==
  \A f \in Frames :
     ("construct" \in f.ran /\ Unclaimed(f) # {}) => UndefinedErrorOf(f)

\* C3, amended: construction from a mapping with a key that is no field of
\* the schema fails and no instance is built; the error lists the type and
\* all the unclaimed keys when every field of the schema accepts its value,
\* and is the error of one rejected field otherwise.
C3_UnclaimedRejected ==
  \A f \in Frames :
     ("construct" \in f.ran /\ Unclaimed(f) # {}) =>
        /\ outcome.status = "raised"
        /\ f.instance = NoInstance
        /\ "postflatten" \notin f.ran
        /\ IF Rejected(f) = {} THEN UndefinedErrorOf(f) ELSE FieldErrorOf(f)

C3_Witness ==
  /\ outcome.status = "raised"
  /\ outcome.err.what = "Undefined element(s)"
  /\ outcome.err.on = "LEDGERBAL"
  /\ outcome.err.names = {"foo", "memo"}
  /\ Rejected(outcome.frame) = {}

\* C4 as stated: construction from a mapping without a key for a required
\* field fails with the error naming the type and that field, for every such
\* field.
C4_EveryMissingFieldNamed ==
  \A f \in Frames :
     "construct" \in f.ran =>
        \A n \in MissingRequired(f) :
           /\ outcome.status = "raised"
           /\ outcome.err = Err("ValueError", "Can't create", f.SubClass, {n})

\* C4, amended: construction from a mapping without a key for some required
\* field fails and no instance is built; the error names the type and one
\* field that fails validation, which is the missing field when no other
\* field fails.
C4_MissingRequiredRejected ==
  \A f \in Frames :
     ("construct" \in f.ran /\ MissingRequired(f) # {}) =>
        /\ FieldErrorOf(f)
        /\ f.instance = NoInstance
        /\ "postflatten" \notin f.ran
        /\ \A n \in MissingRequired(f) :
              Rejected(f) = {n} => outcome.err.names = {n}

C4_Witness ==
  /\ outcome.status = "raised"
  /\ outcome.frame.entry.tag = "LEDGERBAL"
  /\ "balamt" \in DOMAIN outcome.frame.attributes
  /\ MissingRequired(outcome.frame) = {"dtasof"}
  /\ outcome.err = Err("ValueError", "Can't create", "LEDGERBAL", {"dtasof"})

\* the positions of the linearization whose class declares the name as a field
Declarers(name) ==
  {i \in 1..Len(emro) : name \in DOMAIN emro[i] /\ IsElement(emro[i][name])}

\* the declaring class closest to the concrete type
Nearest(name) == CHOOSE i \in Declarers(name) : \A j \in Declarers(name) : i <= j

\* C5: once the elements loop has run over the whole linearization, a field
\* name declared by more than one class is bound to the descriptor declared
\* by the class closest to the concrete type.
C5_NearestDeclarationWins ==
  ei > Len(emro) =>
     \A name \in DOMAIN ed :
        Cardinality(Declarers(name)) > 1 => ed[name] = emro[Nearest(name)][name]

RECURSIVE Prune(_)
RECURSIVE PruneKids(_)
\* the children without the data-bearing leaves whose tag has the separator
PruneKids(kids) ==
  IF kids = <<>> THEN <<>>
  ELSE LET k == Head(kids)
       IN IF Strip(k.text) # ""
          THEN (IF HasDot(k.tag) THEN <<>> ELSE <<k>>) \o PruneKids(Tail(kids))
          ELSE <<Prune(k)>> \o PruneKids(Tail(kids))

\* the node without those leaves at every depth
Prune(node) == [node EXCEPT !.kids = PruneKids(node.kids)]

RECURSIVE DataTags(_)
\* the tags of the data-bearing leaves at any depth below the node
DataTags(node) ==
  UNION {IF Strip(node.kids[i].text) # "" THEN {node.kids[i].tag}
         ELSE DataTags(node.kids[i]) : i \in 1..Len(node.kids)}

PrivateKeys == {Lower(t) : t \in DottedTags}

\* the flatten step was reached in frame f
AtFlatten(f) == f.pc = "flatten" \/ "flatten" \in f.ran

\* C6: no key of the mapping _flatten returns, and no field of an instance,
\* comes from a tag with the separator '.': every key is the lowercase of the
\* tag of a data-bearing leaf without the separator.  A data-bearing leaf with
\* the separator is dropped silently at every depth: _flatten fails or returns
\* exactly what it does for the element without those leaves.
C6_PrivateTagsDropped ==
  \A f \in Frames :
     /\ Flattened(f) =>
           /\ \A k \in DOMAIN f.attributes :
                 /\ k \notin PrivateKeys
                 /\ \E t \in DataTags(f.elem) : ~HasDot(t) /\ k = Lower(t)
           /\ Flatten(Prune(f.elem)) = FlattenYields(f.attributes)
     /\ "flatten" \in f.ran => Flatten(Prune(f.elem)).ok = Flattened(f)
     /\ \A n \in DOMAIN f.instance.fields : n \notin PrivateKeys

C6_Witness ==
  \E f \in Frames :
     /\ Flattened(f)
     /\ f.attributes # EmptyDict
     /\ \E i \in 1..Len(f.elem.kids) :
           /\ Strip(f.elem.kids[i].text) = ""
           /\ "INTU.BID" \in DataTags(f.elem.kids[i])

\* C7: decoding an MFINFO element with three MFASSETCLASS children returns an
\* instance whose mfassetclass is a list of three nested instances, and none
\* of the three is a child of the element when _flatten runs.
C7_RepeatedBecomeList ==
  /\ (/\ outcome.status \in {"raised", "returned"}
      /\ input.tag = "MFINFO"
      /\ CountChildren(input, "MFASSETCLASS") = 3) =>
        /\ outcome.status = "returned"
        /\ "mfassetclass" \in DOMAIN outcome.instance.subs
        /\ outcome.instance.subs["mfassetclass"].list
        /\ Len(outcome.instance.subs["mfassetclass"].items) = 3
  /\ \A f \in Frames :
        (/\ f.entry.tag = "MFINFO"
         /\ CountChildren(f.entry, "MFASSETCLASS") = 3
         /\ AtFlatten(f)) => ~HasChild(f.elem, "MFASSETCLASS")

\* the currency of the node is declared by an element with that tag: a direct
\* child, or a child of a direct child as in the wrapped investment
\* transactions
DeclaredBy(node, tag) ==
  \/ HasChild(node, tag)
  \/ \E i \in 1..Len(node.kids) : HasChild(node.kids[i], tag)

ComposedFrom(cls, base) == \E i \in 1..Len(Mro[cls]) : Mro[cls][i] = base

\* C8: an instance of a schema composed from ORIGCURRENCY, decoded from a
\* node whose currency is declared by a CURRENCY element, has curtype
\* 'CURRENCY'; decoded from a node whose currency is declared by an
\* ORIGCURRENCY element, it has curtype 'ORIGCURRENCY'.
C8_CurtypeTellsOrigin ==
  (/\ outcome.status = "returned"
   /\ ComposedFrom(outcome.instance.cls, "ORIGCURRENCY")) =>
      /\ (DeclaredBy(input, "CURRENCY") /\ ~DeclaredBy(input, "ORIGCURRENCY"))
            => outcome.instance.fields["curtype"] = "CURRENCY"
      /\ (DeclaredBy(input, "ORIGCURRENCY") /\ ~DeclaredBy(input, "CURRENCY"))
            => outcome.instance.fields["curtype"] = "ORIGCURRENCY"

\* the first direct child with the tag
Child(node, tag) == node.kids[CHOOSE i \in 1..Len(node.kids) :
                                 /\ node.kids[i].tag = tag
                                 /\ \A j \in 1..(i - 1) : node.kids[j].tag # tag]

RECURSIVE DataTexts(_)
\* the stripped texts of the data-bearing leaves at any depth below the node
DataTexts(node) ==
  UNION {IF Strip(node.kids[i].text) # "" THEN {Strip(node.kids[i].text)}
         ELSE DataTexts(node.kids[i]) : i \in 1..Len(node.kids)}

\* an OPTINFO element with one SECID as a direct child
OptionWithUnderlying(node) ==
  node.tag = "OPTINFO" /\ CountChildren(node, "SECID") = 1

\* C9: for an OPTINFO element with one SECID as a direct child, the hook has
\* removed that SECID when _flatten runs, and the instance decoded from it
\* holds no value of that SECID: its uniqueid and uniqueidtype are those of
\* the SECID inside SECINFO, the option's own.
C9_UnderlyingDiscarded ==
  /\ \A f \in Frames :
        (OptionWithUnderlying(f.entry) /\ AtFlatten(f)) => ~HasChild(f.elem, "SECID")
  /\ (outcome.status = "returned" /\ OptionWithUnderlying(input)) =>
        LET fields == outcome.instance.fields
            own == Child(Child(input, "SECINFO"), "SECID")
        IN /\ \A n \in DOMAIN fields : fields[n] \notin DataTexts(Child(input, "SECID"))
           /\ fields["uniqueid"] = Strip(Child(own, "UNIQUEID").text)
           /\ fields["uniqueidtype"] = Strip(Child(own, "UNIQUEIDTYPE").text)

C9_Witness ==
  /\ outcome.status = "returned"
  /\ OptionWithUnderlying(input)
  /\ input.kids[Len(input.kids)].tag = "SECID"
  /\ "und1" \in DataTexts(Child(input, "SECID"))
  /\ outcome.instance.fields["uniqueid"] = "opt1"

\* C10: decoding a node whose root tag is not the name of a schema class
\* fails with the KeyError of the lookup: no class is selected, no hook and
\* no later step runs, and no instance is built.
C10_UnknownTagRejected ==
  /\ (outcome.status \in {"raised", "returned"} /\ input.tag \notin SchemaNames) =>
        /\ outcome.status = "raised"
        /\ outcome.err.exc = "KeyError"
        /\ outcome.err.on = input.tag
  /\ \A f \in Frames :
        f.entry.tag \notin SchemaNames =>
           /\ f.SubClass = ""
           /\ f.ran \subseteq {"groom", "lookup"}
           /\ f.instance = NoInstance


\* The caller's tree as it stands once the call is over: from_etree works on
\* the caller's element itself, so the root frame's element is that tree.
CallerTree == stack[1].elem

\* C11: a decode call leaves the caller's tree as it found it: once
\* from_etree has returned an instance or raised, every node of the input
\* tree has the same tag, the same text and the same ordered children as
\* before the call.
C11_InputTreeUntouched ==
  outcome.status \in {"raised", "returned"} => CallerTree = input
=============================================================================
